---- MODULE Spec2Model ----
(***************************************************************************)
(* A model of DailyNoteViewPlugin (src/src/dailyNoteViewIndex.ts): the     *)
(* plugin's life cycle, the method patches it grafts onto the host's       *)
(* workspace and leaves, the Escape shield and the day-change monitor.     *)
(* The host (Obsidian's workspace, leaves, DOM and timers) is modelled by  *)
(* what the plugin's code calls and reads of it.                           *)
(***************************************************************************)
EXTENDS Integers, Sequences, FiniteSets, TLC

(* ------------------------------------------------------------------ *)
(* Universe                                                            *)
(* ------------------------------------------------------------------ *)

\* The view type the plugin registers (imported from ./dailyNoteView).
DAILY_NOTE_VIEW_TYPE == "daily-note-view"

\* Leaves of the workspace; a leaf of view type "none" is not in the workspace.
Leaves == {"L1", "L2"}
NoLeaf == "noLeaf"
ViewTypes == {"none", "markdown", DAILY_NOTE_VIEW_TYPE}

\* How many openFile calls a run makes at most.
MaxOpens == 2

\* How often one uninstaller is invoked at most.
MaxUninstalls == 3

\* A synchronous call chain deeper than this counts as unbounded recursion.
MaxCallDepth == 4

\* The methods the plugin patches for as long as it is loaded.
AroundMethods ==
    {"getActiveViewOfType", "changeLayout", "iterateLeaves",
     "getRoot", "setPinned", "openFile"}
Methods == AroundMethods \cup {"setActiveLeaf"}

VARIABLES
    phase,          \* "constructed", "loaded" (onload has run) or "unloaded"
    settings,       \* this.settings
    viewType,       \* leaf -> the type of the view it hosts
    activeLeaf,     \* workspace.activeLeaf
    slot,           \* method -> the layers wrapped around the host's original, top first
    pinned,         \* leaf -> leaf.pinned
    lastPin,        \* what the last setPinned call did
    lastSAL,        \* what the last workspace.setActiveLeaf call did
    docListeners,   \* the document's listeners that are the plugin's: event names
    wsListeners,    \* the workspace's listeners that are the plugin's: event names
    intervals,      \* the plugin's running window.setInterval timers
    bodyClasses,    \* the classes of document.body the plugin toggles
    marked,         \* the DOM elements carrying the class dne-root
    overlay,        \* the class of the transient surface in the document, or "none"
    focusInsideDNE, \* initializeESCShield's focusInsideDNE
    original,       \* method -> what each patch captured as the method it wraps
    uninstalls,     \* uninstaller -> how many times it has been invoked
    lastUninstall,  \* what the last invocation of an uninstaller after unload did
    lastMenu,       \* what the last "file-menu" event of the workspace led to
    origRoot,       \* workspace item -> what its own, unpatched getRoot returns
    lastRoot,       \* what the last leaf.getRoot() call returned
    hasRecentFiles, \* app.plugins.plugins["recent-files-obsidian"] is there
    recSlot,        \* the temporary overrides on Workspace.prototype.recordMostRecentOpenedFile, top first
    shouldSlot,     \* the temporary overrides on the recent-files plugin's shouldAddFile, top first
    timers,         \* the pending setTimeout(remover, 1) callbacks, in the order they were set
    opens,          \* the openFile calls made so far, with what became of each file
    recent,         \* the files the host's recordMostRecentOpenedFile has recorded
    recentFiles,    \* the files the recent-files plugin has added
    keyEvent,       \* the keydown being dispatched: what it met, what escHandler did to it
    now,            \* the clock: the instant moment() reads
    lastCheckedDay, \* this.lastCheckedDay
    notes,          \* the dates that have a daily note
    awaiting,       \* the ensureTodaysDailyNoteExists calls awaiting createDailyNote
    onLayoutReady,  \* the onLayoutReady callback of onload: "none", "waiting" or "done"
    ensureByTick,   \* date -> the ensureTodaysDailyNoteExists calls checkDayChange made for it
    createCalls,    \* date -> the createDailyNote calls made for it
    refreshCalls,   \* leaf -> date -> the refreshForNewDay calls of that day change on its view
    refreshLoop,    \* date -> the runs of checkDayChange's loop over the leaves, and the leaves it met
    ensureFailed,   \* date -> the failure ensureTodaysDailyNoteExists met in a tick: "no", "lookup", "create"
    lastTick        \* what the last checkDayChange tick at the present instant met

lifeVars ==
    <<phase, settings, slot, original, docListeners, wsListeners, intervals,
      bodyClasses, uninstalls, lastUninstall, lastMenu>>
leafVars == <<viewType, activeLeaf>>
pinVars == <<pinned, lastPin>>
salVars == <<lastSAL>>
escVars == <<overlay, focusInsideDNE, keyEvent>>
rootVars == <<origRoot, lastRoot>>
openVars == <<hasRecentFiles, recSlot, shouldSlot, timers, opens, recent, recentFiles>>
dayVars ==
    <<now, lastCheckedDay, notes, awaiting, onLayoutReady, ensureByTick, createCalls,
      refreshCalls, refreshLoop, ensureFailed, lastTick>>
vars ==
    <<lifeVars, leafVars, pinVars, salVars, marked, escVars, rootVars, openVars, dayVars>>

NoCall == [kind |-> "none"]

(* ------------------------------------------------------------------ *)
(* Settings                                                            *)
(* ------------------------------------------------------------------ *)

SettingsOf(arrow, startup, frontmatter, backlinks) ==
    [useArrowUpOrDownToNavigate |-> arrow,
     createAndOpenOnStartup |-> startup,
     hideFrontmatter |-> frontmatter,
     hideBacklinks |-> backlinks]

PlainSettings == SettingsOf(FALSE, FALSE, FALSE, FALSE)

(* ------------------------------------------------------------------ *)
(* Leaves                                                              *)
(* ------------------------------------------------------------------ *)

\* isDailyNoteLeaf (./leafView): the leaf hosts the daily-note view.
isDailyNoteLeaf(l) == l \in Leaves /\ viewType[l] = DAILY_NOTE_VIEW_TYPE

\* workspace.getLeavesOfType(DAILY_NOTE_VIEW_TYPE)
LeavesOfDailyNoteType == {l \in Leaves : viewType[l] = DAILY_NOTE_VIEW_TYPE}

(* ------------------------------------------------------------------ *)
(* The document                                                        *)
(* ------------------------------------------------------------------ *)

\* The elements of a leaf, outermost first: leaf.containerEl, view.containerEl,
\* view.contentEl, the daily-note editor's root (a daily-note view only), and the
\* editor surface (.cm-editor with its .cm-content) of the view.
Parts == {"leaf", "view", "content", "editor", "cm", "cmContent"}
Body == <<"document", "body">>
Overlay == <<"document", "overlay">>
Elements == (Leaves \X Parts) \cup {Body, Overlay}

\* The element is in the document, the leaves hosting the views `vts`.
ExistsIn(vts, ov, el) ==
    IF el = Body THEN TRUE
    ELSE IF el = Overlay THEN ov # "none"
    ELSE /\ vts[el[1]] # "none"
         /\ el[2] = "editor" => vts[el[1]] = DAILY_NOTE_VIEW_TYPE

Exists(el) == ExistsIn(viewType, overlay, el)

Parent(el) ==
    IF el \in {Body, Overlay} THEN Body
    ELSE CASE el[2] = "leaf" -> Body
           [] el[2] = "view" -> <<el[1], "leaf">>
           [] el[2] = "content" -> <<el[1], "view">>
           [] el[2] = "editor" -> <<el[1], "content">>
           [] el[2] = "cm" -> IF viewType[el[1]] = DAILY_NOTE_VIEW_TYPE
                              THEN <<el[1], "editor">> ELSE <<el[1], "content">>
           [] el[2] = "cmContent" -> <<el[1], "cm">>

RECURSIVE SelfAndAncestors(_)
SelfAndAncestors(el) ==
    IF el = Body THEN {Body} ELSE {el} \cup SelfAndAncestors(Parent(el))

\* The classes an element carries; dne-root is the one the plugin adds.
ClassesOf(el) ==
    (IF el \in marked THEN {"dne-root"} ELSE {}) \cup
    (IF el = Body THEN {}
     ELSE IF el = Overlay THEN {overlay}
     ELSE CASE el[2] = "leaf" -> {"workspace-leaf"}
            [] el[2] = "view" -> {"workspace-leaf-content"}
            [] el[2] = "content" -> {"view-content"}
            [] el[2] = "editor" -> {"daily-note-editor", "daily-note-container",
                                    "dn-editor", "dn-leaf-view"}
            [] el[2] = "cm" -> {"cm-editor"}
            [] el[2] = "cmContent" -> {"cm-content"})

\* el.closest("." + class) finds an element
Closest(el, class) == \E a \in SelfAndAncestors(el) : class \in ClassesOf(a)

\* document.querySelectorAll over a list of class selectors
QuerySelectorAll(classes) ==
    {el \in Elements : Exists(el) /\ ClassesOf(el) \cap classes # {}}

\* The marks that survive a change of the leaves' views: a view's elements go
\* with the view, a leaf's container with the leaf.
MarksAfter(vts) ==
    {el \in marked :
        /\ el \notin {Body, Overlay} => (vts[el[1]] = viewType[el[1]] \/
                (el[2] = "leaf" /\ vts[el[1]] # "none"))}

(* ------------------------------------------------------------------ *)
(* monkey-around: a patch is a layer on top of what the method was     *)
(* ------------------------------------------------------------------ *)

\* around(obj, {m: factory}): obj[m] becomes a wrapper whose inner is what obj[m] was.
AroundInstall(layers) == <<"dne">> \o layers

\* The remover around() returns: a wrapper that is still obj[m] is taken off; one
\* that has been wrapped again stays in the chain and passes calls through.
AroundRemove(layers) ==
    IF layers = <<>> THEN layers
    ELSE IF Head(layers) = "dne" THEN Tail(layers)
    ELSE [i \in 1..Len(layers) |-> IF layers[i] = "dne" THEN "dneOff" ELSE layers[i]]

(* ------------------------------------------------------------------ *)
(* patchSetActiveLeaf: the slot only (its decision is further down)    *)
(* ------------------------------------------------------------------ *)

\* workspace.setActiveLeaf = function ... : the guard around the bound copy of
\* what workspace.setActiveLeaf resolved to.
SetActiveLeafInstall(layers) == <<"guard", "bound">> \o layers

\* The registered callback: workspace.setActiveLeaf = originalSetActiveLeaf, the
\* bound copy taken at install, whatever the property holds by then.
SetActiveLeafRestore(layers) == <<"bound">> \o original["setActiveLeaf"]

\* The frames a call stack (new Error().stack) may name, and the stacks tried.
Frames == {"onKeydown", "setTimeout", "user-action", "click"}
MaxFrames == 2
RECURSIVE StacksUpTo(_)
StacksUpTo(n) ==
    IF n = 0 THEN {<<>>}
    ELSE LET shorter == StacksUpTo(n - 1) IN
         shorter \cup {<<f>> \o st : f \in Frames, st \in {x \in shorter : Len(x) = n - 1}}
Stacks == StacksUpTo(MaxFrames)

\* stack.includes(word)
StackIncludes(stack, word) == \E i \in 1..Len(stack) : stack[i] = word

\* isLegitimate
IsLegitimate(stack) == StackIncludes(stack, "user-action") \/ StackIncludes(stack, "click")

\* The view type of a leaf as the guard reads it: e?.view?.getViewType?.()
ViewTypeOf(l) == IF l \in Leaves THEN viewType[l] ELSE "none"

\* A guard that blocks every switch away from a daily-note leaf, gesture or not.
GuardBlocks_IgnoresGesture(target, stack) ==
    ViewTypeOf(activeLeaf) = DAILY_NOTE_VIEW_TYPE /\ ViewTypeOf(target) # DAILY_NOTE_VIEW_TYPE

\* The guard's decision: return without calling originalSetActiveLeaf?
GuardBlocks(target, stack) ==
    /\ ViewTypeOf(activeLeaf) = DAILY_NOTE_VIEW_TYPE
    /\ ViewTypeOf(target) # DAILY_NOTE_VIEW_TYPE
    /\ ~IsLegitimate(stack)

\* workspace.setActiveLeaf(e, t) through the layers of the property: the calls
\* of the host's original it ends in, as the arguments handed to each.
RECURSIVE CallSetActiveLeaf(_, _, _, _)
CallSetActiveLeaf(layers, target, params, stack) ==
    IF layers = <<>> THEN << <<target, params>> >>
    ELSE IF Head(layers) = "guard" THEN
        IF GuardBlocks(target, stack) THEN <<>>
        ELSE CallSetActiveLeaf(Tail(layers), target, params, stack)
    ELSE CallSetActiveLeaf(Tail(layers), target, params, stack)

\* The host's Workspace.setActiveLeaf makes its first argument the active leaf.
HostSetActiveLeaf(active, calls) ==
    IF calls = <<>> THEN active ELSE calls[Len(calls)][1]

SetActiveLeafParams == {"undefined", "focus"}

SetActiveLeaf(target, params, stack) ==
    /\ target \in Leaves => viewType[target] # "none"
    /\ LET calls == CallSetActiveLeaf(slot["setActiveLeaf"], target, params, stack)
           after == HostSetActiveLeaf(activeLeaf, calls)
       IN /\ activeLeaf' = after
          /\ lastSAL' = [kind |-> "setActiveLeaf", target |-> target, params |-> params,
                         loaded |-> phase = "loaded",
                         currentGuarded |-> ViewTypeOf(activeLeaf) = DAILY_NOTE_VIEW_TYPE,
                         targetGuarded |-> ViewTypeOf(target) = DAILY_NOTE_VIEW_TYPE,
                         legit |-> IsLegitimate(stack),
                         hostCalls |-> calls,
                         activeBefore |-> activeLeaf, activeAfter |-> after]
    /\ UNCHANGED <<lifeVars, viewType, pinVars, openVars, rootVars, marked, escVars, dayVars>>

(* ------------------------------------------------------------------ *)
(* patchWorkspaceLeaf: getRoot                                         *)
(* ------------------------------------------------------------------ *)

\* The items of the workspace tree: the leaves and the containers above them
\* (the root split, a floating window's container, a popover's root split).
Containers == {"rootSplit", "floating", "popover"}
Items == Leaves \cup Containers
NoItem == "undefined"

\* top?.getRoot === this.getRoot, `this` a leaf: the two share the method only
\* when top is a leaf too; a container has the method of its own class.
SameGetRoot(top) == top \in Leaves

\* A getRoot patch that hands out what the original returned.
PatchedGetRoot_NoFurtherLevel(top) == top

\* The patch after old.call(this): top itself, or top's own getRoot().
PatchedGetRoot(top) ==
    IF top # NoItem /\ SameGetRoot(top) THEN top
    ELSE IF top = NoItem THEN NoItem
    ELSE origRoot[top]

\* leaf.getRoot() through the layers of the method
RECURSIVE CallGetRoot(_, _)
CallGetRoot(layers, x) ==
    IF layers = <<>> THEN origRoot[x]
    ELSE IF Head(layers) = "dne" THEN PatchedGetRoot(CallGetRoot(Tail(layers), x))
    ELSE CallGetRoot(Tail(layers), x)

\* item.getRoot(): a leaf's goes through WorkspaceLeaf.prototype.getRoot
ItemGetRoot(i) ==
    IF i = NoItem THEN NoItem
    ELSE IF i \in Leaves THEN CallGetRoot(slot["getRoot"], i)
    ELSE origRoot[i]

\* The original resolution from leaf x reaches a true root (an item that is its
\* own root) with at most one further level above what it returns for x.
TrueRootWithinOneLevel(x) ==
    /\ origRoot[x] # NoItem
    /\ \/ origRoot[x] \in Leaves
       \/ origRoot[origRoot[x]] = origRoot[origRoot[origRoot[x]]]

GetRoot(x) ==
    /\ lastRoot' = [kind |-> "getRoot", leaf |-> x,
                    patched |-> slot["getRoot"] # <<>>,
                    withinOneLevel |-> TrueRootWithinOneLevel(x),
                    result |-> ItemGetRoot(x),
                    again |-> ItemGetRoot(ItemGetRoot(x))]
    /\ UNCHANGED <<lifeVars, leafVars, pinVars, openVars, salVars, marked, escVars, origRoot, dayVars>>

\* The host moves an item in the workspace tree (a leaf into a popover or a
\* floating window, a container under another, a leaf out of the tree): what
\* the item's original getRoot returns changes.
HostMovesItem(i, r) ==
    /\ r # origRoot[i]
    /\ r \in (IF i \in Leaves THEN Containers \cup {i, NoItem} ELSE Containers)
    /\ origRoot' = [origRoot EXCEPT ![i] = r]
    /\ UNCHANGED <<lifeVars, leafVars, pinVars, openVars, salVars, marked, escVars, lastRoot, dayVars>>

(* ------------------------------------------------------------------ *)
(* patchWorkspaceLeaf: setPinned                                       *)
(* ------------------------------------------------------------------ *)

\* The host's WorkspaceLeaf.setPinned, reached as old.call(this, pinned).
HostSetPinned(pin, l, p) == [pin EXCEPT ![l] = p]

\* A setPinned patch that does not pin a daily-note leaf again.
SetPinnedLayer_NoRepin(l, p) == FALSE

\* The patch's own decision after old.call: re-invoke this.setPinned(true)?
SetPinnedLayer(l, p) == isDailyNoteLeaf(l) /\ ~p

\* leaf.setPinned(p) through the layers `layers` of the method, `fuel` nested
\* calls left; this.setPinned(true) dispatches through the whole slot again.
RECURSIVE CallSetPinned(_, _, _, _, _)
CallSetPinned(layers, l, p, acc, fuel) ==
    IF ~acc.returned \/ fuel = 0 THEN [acc EXCEPT !.returned = FALSE]
    ELSE IF layers = <<>> THEN
        [acc EXCEPT !.pin = HostSetPinned(acc.pin, l, p), !.hostCalls = @ + 1]
    ELSE IF Head(layers) = "dne" THEN
        LET after == CallSetPinned(Tail(layers), l, p, acc, fuel) IN
        IF SetPinnedLayer(l, p)
        THEN CallSetPinned(slot["setPinned"], l, TRUE, after, fuel - 1)
        ELSE after
    ELSE CallSetPinned(Tail(layers), l, p, acc, fuel)

SetPinned(l, p) ==
    /\ viewType[l] # "none"
    /\ LET r == CallSetPinned(slot["setPinned"], l, p,
                    [pin |-> pinned, hostCalls |-> 0, returned |-> TRUE],
                    MaxCallDepth)
       IN /\ pinned' = r.pin
          /\ lastPin' = [kind |-> "setPinned", leaf |-> l, arg |-> p,
                         guarded |-> isDailyNoteLeaf(l),
                         patched |-> slot["setPinned"] # <<>>,
                         hostCalls |-> r.hostCalls, returned |-> r.returned]
    /\ UNCHANGED <<lifeVars, leafVars, salVars, marked, escVars, rootVars, openVars, dayVars>>

(* ------------------------------------------------------------------ *)
(* patchWorkspaceLeaf: openFile and its temporary overrides            *)
(* ------------------------------------------------------------------ *)

Files == {"a.md", "b.md"}

\* around(target, {method(old) {...}}) inside openFile: a new top layer that
\* excludes `file`; `id` tells the overrides apart.
TempInstall(layers, id, file) ==
    <<[id |-> id, file |-> file, active |-> TRUE, fired |-> FALSE]>> \o layers

\* The remover around() returned, run by the timer: the wrapper is taken off if
\* it is still the method, and otherwise left in place passing calls through.
TempRemove(layers, id) ==
    IF layers # <<>> /\ Head(layers).id = id THEN Tail(layers)
    ELSE [i \in 1..Len(layers) |->
            IF layers[i].id = id THEN [layers[i] EXCEPT !.active = FALSE] ELSE layers[i]]

\* A call of the method: a wrapper that has been deactivated and finds itself
\* the method again takes itself off before passing the call on.
RECURSIVE DropInactiveTop(_)
DropInactiveTop(layers) ==
    IF layers = <<>> \/ Head(layers).active THEN layers
    ELSE DropInactiveTop(Tail(layers))

\* The override: _file !== file, so old is called.
OverridePasses(layer, file) == ~layer.active \/ layer.file # file

\* Does a call for `file` get through every layer to the original?
RECURSIVE ReachesOriginal(_, _)
ReachesOriginal(layers, file) ==
    IF layers = <<>> THEN TRUE
    ELSE OverridePasses(Head(layers), file) /\ ReachesOriginal(Tail(layers), file)

\* The layers after a call for `file`: an override whose function ran has fired.
RECURSIVE AfterCall(_, _)
AfterCall(layers, file) ==
    IF layers = <<>> THEN <<>>
    ELSE <<[Head(layers) EXCEPT !.fired = @ \/ Head(layers).active]>> \o
         (IF OverridePasses(Head(layers), file)
          THEN AfterCall(Tail(layers), file) ELSE Tail(layers))

\* An openFile patch that sets no timer for the shouldAddFile override.
TimersAfterOpen_NoShouldRemover(queue, id) == Append(queue, <<"record", id>>)

\* The two setTimeout(remover, 1) calls of a guarded open.
TimersAfterOpen(queue, id) ==
    IF hasRecentFiles
    THEN Append(Append(queue, <<"record", id>>), <<"should", id>>)
    ELSE Append(queue, <<"record", id>>)

\* A patch that remembers what it found on the call before.
OpenFileGuards_AsInEarlierCall(l) ==
    IF opens = <<>> THEN isDailyNoteLeaf(l) ELSE opens[Len(opens)].guarded

\* if (isDailyNoteLeaf(this)), evaluated in the call.
OpenFileGuards(l) == isDailyNoteLeaf(l)

\* leaf.openFile(file): the patch, while it is the method, installs the
\* overrides for a daily-note leaf; then old.call starts the host's open.
OpenFile(l, file) ==
    /\ Len(opens) < MaxOpens
    /\ viewType[l] # "none"
    /\ LET id == Len(opens) + 1
           guarded == slot["openFile"] # <<>> /\ Head(slot["openFile"]) = "dne"
                        /\ OpenFileGuards(l)
       IN /\ recSlot' = IF guarded THEN TempInstall(recSlot, id, file) ELSE recSlot
          /\ shouldSlot' = IF guarded /\ hasRecentFiles
                           THEN TempInstall(shouldSlot, id, file) ELSE shouldSlot
          /\ timers' = IF guarded THEN TimersAfterOpen(timers, id) ELSE timers
          /\ opens' = Append(opens, [file |-> file, guarded |-> guarded,
                                     daily |-> isDailyNoteLeaf(l),
                                     record |-> "pending"])
    /\ UNCHANGED <<hasRecentFiles, recent, recentFiles>>
    /\ UNCHANGED <<lifeVars, leafVars, pinVars, salVars, marked, escVars, rootVars, dayVars>>

\* The oldest pending timer fires and runs its remover.
TimerFires ==
    /\ timers # <<>>
    /\ timers' = Tail(timers)
    /\ recSlot' = IF Head(timers)[1] = "record"
                  THEN TempRemove(recSlot, Head(timers)[2]) ELSE recSlot
    /\ shouldSlot' = IF Head(timers)[1] = "should"
                     THEN TempRemove(shouldSlot, Head(timers)[2]) ELSE shouldSlot
    /\ UNCHANGED <<hasRecentFiles, opens, recent, recentFiles>>
    /\ UNCHANGED <<lifeVars, leafVars, pinVars, salVars, marked, escVars, rootVars, dayVars>>

\* The host's open of opens[i] calls workspace.recordMostRecentOpenedFile(file).
HostRecords(i) ==
    /\ opens[i].record = "pending"
    /\ LET layers == DropInactiveTop(recSlot)
           through == ReachesOriginal(layers, opens[i].file)
       IN /\ recSlot' = AfterCall(layers, opens[i].file)
          /\ recent' = IF through THEN recent \cup {opens[i].file} ELSE recent
          /\ opens' = [opens EXCEPT ![i].record =
                            IF through THEN "recorded" ELSE "suppressed"]
    /\ UNCHANGED <<hasRecentFiles, shouldSlot, timers, recentFiles>>
    /\ UNCHANGED <<lifeVars, leafVars, pinVars, salVars, marked, escVars, rootVars, dayVars>>

\* The recent-files plugin asks shouldAddFile(file) for a file it saw opened;
\* its own shouldAddFile admits every file.
RecentFilesAsks(file) ==
    /\ hasRecentFiles
    /\ \E i \in 1..Len(opens) : opens[i].file = file
    /\ LET layers == DropInactiveTop(shouldSlot)
       IN /\ shouldSlot' = AfterCall(layers, file)
          /\ recentFiles' = IF ReachesOriginal(layers, file)
                            THEN recentFiles \cup {file} ELSE recentFiles
    /\ UNCHANGED <<hasRecentFiles, recSlot, timers, opens, recent>>
    /\ UNCHANGED <<lifeVars, leafVars, pinVars, salVars, marked, escVars, rootVars, dayVars>>

(* ------------------------------------------------------------------ *)
(* checkDayChange and ensureTodaysDailyNoteExists                      *)
(* ------------------------------------------------------------------ *)

MaxInstant == 4
InstantsPerDay == 2
CountCap == 2

\* moment().format("YYYY-MM-DD"): the calendar date of an instant.
DayNames ==
    <<"2024-12-30", "2024-12-31", "2025-01-01", "2025-01-02", "2025-01-03",
      "2025-01-04", "2025-01-05", "2025-01-06">>

FormatDay(t) == DayNames[(t \div InstantsPerDay) + 1]

Days == {FormatDay(t) : t \in 0..MaxInstant}

\* lastCheckedDay before onload has assigned it.
NoDay == "undefined"

Count(n) == IF n < CountCap THEN n + 1 ELSE CountCap

\* What getAllDailyNotes / getDailyNote come to inside the try block.
LookupOutcomes == {"looked", "throws"}

\* Does ensureTodaysDailyNoteExists go on to await createDailyNote(currentDate)?
EnsureCreates(outcome, day) == outcome = "looked" /\ day \notin notes

\* checkDayChange left out the assignment and keeps the day it was started with.
LastCheckedDayAfterChange_NotUpdated(currentDay) == lastCheckedDay

\* this.lastCheckedDay = currentDay
LastCheckedDayAfterChange(currentDay) == currentDay

\* A try block without its catch: the promise rejects when the block failed.
EnsureRejects_NoCatch(failed) == failed

\* catch (error) { console.error(...) }: the promise of
\* ensureTodaysDailyNoteExists never rejects, whatever happened in the try block.
EnsureRejects(failed) == FALSE

\* The leaves of the view type read when the tick started, before its await.
LeavesToRefresh_ReadBeforeAwait(atStart) == atStart

\* getLeavesOfType(DAILY_NOTE_VIEW_TYPE), read after the await; `atStart` is what
\* the same call came to when the tick started.
LeavesToRefresh(atStart) == LeavesOfDailyNoteType

\* view.refreshForNewDay() on each of those leaves, unless the await rejected.
RefreshForNewDay(calls, day, atStart, failed) ==
    IF EnsureRejects(failed) THEN calls
    ELSE [l \in Leaves |->
            IF l \in LeavesToRefresh(atStart)
            THEN [calls[l] EXCEPT ![day] = Count(@)] ELSE calls[l]]

\* The run of the loop: the leaves of the view type there were when it ran.
RefreshLoopRuns(loops, day, atStart, failed) ==
    IF EnsureRejects(failed) THEN loops
    ELSE [loops EXCEPT ![day] = [runs |-> Count(@.runs), views |-> LeavesOfDailyNoteType,
                                 joined |-> LeavesOfDailyNoteType \ atStart # {}]]

\* Is a tick that found the date changed to `day` awaiting createDailyNote?
TickAwaiting(day) ==
    \E i \in 1..Len(awaiting) : awaiting[i].caller = "tick" /\ awaiting[i].day = day

\* The clock moves on.
ClockAdvances ==
    /\ now < MaxInstant
    /\ now' = now + 1
    /\ lastTick' = NoCall
    /\ UNCHANGED <<lastCheckedDay, notes, awaiting, onLayoutReady, ensureByTick, createCalls,
                   refreshCalls, refreshLoop, ensureFailed>>
    /\ UNCHANGED <<lifeVars, leafVars, pinVars, salVars, marked, escVars, rootVars, openVars>>

\* The user, or another plugin, creates the note of the current date.
NoteAppears ==
    /\ FormatDay(now) \notin notes
    /\ notes' = notes \cup {FormatDay(now)}
    /\ UNCHANGED <<now, lastCheckedDay, awaiting, onLayoutReady, ensureByTick, createCalls,
                   refreshCalls, refreshLoop, ensureFailed, lastTick>>
    /\ UNCHANGED <<lifeVars, leafVars, pinVars, salVars, marked, escVars, rootVars, openVars>>

\* One run of checkDayChange by its interval, up to its first suspension: it
\* either completes, or is left awaiting createDailyNote.
CheckDayChange(outcome) ==
    /\ "day" \in intervals
    /\ LET currentDay == FormatDay(now)
           changed == currentDay # lastCheckedDay
           creates == EnsureCreates(outcome, currentDay)
       IN /\ changed => ensureByTick[currentDay] < CountCap
          /\ lastTick' = [kind |-> "tick", day |-> currentDay, changed |-> changed,
                          whileAwaiting |-> TickAwaiting(currentDay),
                          afterFailure |-> ensureFailed[currentDay] = "create"
                                            /\ currentDay \notin notes]
          /\ lastCheckedDay' =
                IF changed THEN LastCheckedDayAfterChange(currentDay) ELSE lastCheckedDay
          /\ ensureByTick' =
                IF changed THEN [ensureByTick EXCEPT ![currentDay] = Count(@)]
                ELSE ensureByTick
          /\ createCalls' =
                IF changed /\ creates THEN [createCalls EXCEPT ![currentDay] = Count(@)]
                ELSE createCalls
          /\ awaiting' =
                IF changed /\ creates
                THEN Append(awaiting, [caller |-> "tick", day |-> currentDay,
                                       views |-> LeavesOfDailyNoteType])
                ELSE awaiting
          /\ ensureFailed' =
                IF changed /\ outcome = "throws"
                THEN [ensureFailed EXCEPT ![currentDay] = "lookup"] ELSE ensureFailed
          /\ refreshCalls' =
                IF changed /\ ~creates
                THEN RefreshForNewDay(refreshCalls, currentDay, LeavesOfDailyNoteType,
                                      outcome = "throws")
                ELSE refreshCalls
          /\ refreshLoop' =
                IF changed /\ ~creates
                THEN RefreshLoopRuns(refreshLoop, currentDay, LeavesOfDailyNoteType,
                                     outcome = "throws")
                ELSE refreshLoop
    /\ UNCHANGED <<now, notes, onLayoutReady>>
    /\ UNCHANGED <<lifeVars, leafVars, pinVars, salVars, marked, escVars, rootVars, openVars>>

\* The rest of the onLayoutReady callback after its await: openDailyNoteEditor
\* unless a leaf of the view type is there.
StartupOpens(vts) ==
    IF phase = "loaded" /\ LeavesOfDailyNoteType = {} /\ \E l \in Leaves : vts[l] = "none"
    THEN [vts EXCEPT ![CHOOSE l \in Leaves : vts[l] = "none"] = DAILY_NOTE_VIEW_TYPE]
    ELSE vts

\* The workspace layout is ready: the callback onload registered runs up to its
\* first suspension.
LayoutReady(outcome) ==
    /\ onLayoutReady = "waiting"
    /\ onLayoutReady' = "done"
    /\ LET currentDay == FormatDay(now)
           creates == EnsureCreates(outcome, currentDay)
       IN /\ createCalls' =
                IF creates THEN [createCalls EXCEPT ![currentDay] = Count(@)]
                ELSE createCalls
          /\ awaiting' =
                IF creates
                THEN Append(awaiting, [caller |-> "startup", day |-> currentDay,
                                       views |-> {}])
                ELSE awaiting
          /\ viewType' = IF creates THEN viewType ELSE StartupOpens(viewType)
          /\ marked' = MarksAfter(viewType')
    /\ UNCHANGED <<now, lastCheckedDay, notes, ensureByTick, refreshCalls, refreshLoop,
                   ensureFailed, lastTick>>
    /\ UNCHANGED <<lifeVars, activeLeaf, pinVars, salVars, escVars, rootVars, openVars>>

\* createDailyNote settles, with a note or with an error ensureTodaysDailyNoteExists
\* catches, and the caller awaiting it runs on to its end.
CreateDailyNoteSettles(i, created) ==
    /\ i \in 1..Len(awaiting)
    /\ awaiting' = SubSeq(awaiting, 1, i - 1) \o SubSeq(awaiting, i + 1, Len(awaiting))
    /\ notes' = IF created THEN notes \cup {awaiting[i].day} ELSE notes
    /\ ensureFailed' =
            IF awaiting[i].caller = "tick" /\ ~created
            THEN [ensureFailed EXCEPT ![awaiting[i].day] = "create"] ELSE ensureFailed
    /\ refreshCalls' =
            IF awaiting[i].caller = "tick"
            THEN RefreshForNewDay(refreshCalls, awaiting[i].day, awaiting[i].views, ~created)
            ELSE refreshCalls
    /\ refreshLoop' =
            IF awaiting[i].caller = "tick"
            THEN RefreshLoopRuns(refreshLoop, awaiting[i].day, awaiting[i].views, ~created)
            ELSE refreshLoop
    /\ viewType' =
            IF awaiting[i].caller = "startup" THEN StartupOpens(viewType) ELSE viewType
    /\ marked' = MarksAfter(viewType')
    /\ UNCHANGED <<now, lastCheckedDay, onLayoutReady, ensureByTick, createCalls, lastTick>>
    /\ UNCHANGED <<lifeVars, activeLeaf, pinVars, salVars, escVars, rootVars, openVars>>

(* ------------------------------------------------------------------ *)
(* Life cycle                                                          *)
(* ------------------------------------------------------------------ *)

\* onload: patchWorkspace (patchSetActiveLeaf, then around(Workspace.prototype)),
\* patchWorkspaceLeaf.
OnloadSlots ==
    [m \in Methods |->
        IF m = "setActiveLeaf" THEN SetActiveLeafInstall(slot[m])
        ELSE AroundInstall(slot[m])]

\* What onload hands to registerEvent, registerDomEvent, register and
\* registerInterval, and so what unloading takes away again.
RegisteredEvents == {"active-leaf-change"}
RegisteredDomEvents == {"focusin"}
RegisteredRemovers == {"keydown"}
RegisteredIntervals == {"day", "tag"}

\* The uninstall callables the plugin holds, each with the methods it restores:
\* patchSetActiveLeaf's, patchWorkspace's and patchWorkspaceLeaf's, and the
\* remover of the keydown listener.
Uninstallers == {"patchSetActiveLeaf", "patchWorkspace", "patchWorkspaceLeaf", "escShield"}

MethodsOf(u) ==
    CASE u = "patchSetActiveLeaf" -> {"setActiveLeaf"}
      [] u = "patchWorkspace" -> {"getActiveViewOfType", "changeLayout", "iterateLeaves"}
      [] u = "patchWorkspaceLeaf" -> {"getRoot", "setPinned", "openFile"}
      [] u = "escShield" -> {}

\* One invocation of uninstaller u, on the methods ...
UninstallSlots(u, sl) ==
    [m \in Methods |->
        IF m \notin MethodsOf(u) THEN sl[m]
        ELSE IF m = "setActiveLeaf" THEN SetActiveLeafRestore(sl[m])
        ELSE AroundRemove(sl[m])]

\* ... and on the document's listeners:
\* document.removeEventListener("keydown", escHandler, {capture: true})
UninstallListeners(u, ls) ==
    IF u = "escShield" THEN ls \ RegisteredRemovers ELSE ls

\* The callbacks this.register(...) holds for the patches, all run at unload.
UnloadSlots ==
    UninstallSlots("patchWorkspaceLeaf",
        UninstallSlots("patchWorkspace",
            UninstallSlots("patchSetActiveLeaf", slot)))

\* onunload: workspace.detachLeavesOfType(DAILY_NOTE_VIEW_TYPE)
DetachDailyNoteLeaves ==
    [l \in Leaves |-> IF viewType[l] = DAILY_NOTE_VIEW_TYPE THEN "none" ELSE viewType[l]]

ActiveAfterDetach ==
    IF activeLeaf \in LeavesOfDailyNoteType THEN NoLeaf ELSE activeLeaf

InitState(s, rf) ==
    /\ hasRecentFiles = rf
    /\ recSlot = <<>>
    /\ shouldSlot = <<>>
    /\ timers = <<>>
    /\ opens = <<>>
    /\ recent = {}
    /\ recentFiles = {}
    /\ phase = "constructed"
    /\ settings = s
    /\ viewType = [l \in Leaves |-> "none"]
    /\ activeLeaf = NoLeaf
    /\ slot = [m \in Methods |-> <<>>]
    /\ pinned = [l \in Leaves |-> FALSE]
    /\ lastPin = NoCall
    /\ lastSAL = NoCall
    /\ docListeners = {}
    /\ wsListeners = {}
    /\ intervals = {}
    /\ bodyClasses = {}
    /\ marked = {}
    /\ overlay = "none"
    /\ focusInsideDNE = FALSE
    /\ keyEvent = NoCall
    /\ original = [m \in Methods |-> <<>>]
    /\ uninstalls = [u \in Uninstallers |-> 0]
    /\ lastUninstall = NoCall
    /\ lastMenu = NoCall
    /\ origRoot = [i \in Items |-> IF i \in Leaves THEN "rootSplit" ELSE i]
    /\ lastRoot = NoCall
    /\ now = 0
    /\ lastCheckedDay = NoDay
    /\ notes = {}
    /\ awaiting = <<>>
    /\ onLayoutReady = "none"
    /\ ensureByTick = [d \in Days |-> 0]
    /\ createCalls = [d \in Days |-> 0]
    /\ refreshCalls = [l \in Leaves |-> [d \in Days |-> 0]]
    /\ refreshLoop = [d \in Days |-> [runs |-> 0, views |-> {}, joined |-> FALSE]]
    /\ ensureFailed = [d \in Days |-> "no"]
    /\ lastTick = NoCall

\* document.body.toggleClass(class, on)
ToggleClass(classes, class, on) ==
    IF on THEN classes \cup {class} ELSE classes \ {class}

\* initCssRules without its first toggle.
InitCssRules_BacklinksOnly(classes) ==
    ToggleClass(classes, "daily-notes-hide-backlinks", settings.hideBacklinks)

\* initCssRules
InitCssRules(classes) ==
    ToggleClass(
        ToggleClass(classes, "daily-notes-hide-frontmatter", settings.hideFrontmatter),
        "daily-notes-hide-backlinks", settings.hideBacklinks)

Onload ==
    /\ phase = "constructed"
    /\ phase' = "loaded"
    /\ slot' = OnloadSlots
    /\ original' = slot
    /\ bodyClasses' = InitCssRules(bodyClasses)
    /\ intervals' = intervals \cup {"day", "tag"}
    /\ wsListeners' = wsListeners \cup {"file-menu", "active-leaf-change"}
    /\ docListeners' = docListeners \cup {"focusin", "keydown"}
    /\ focusInsideDNE' = FALSE
    /\ UNCHANGED <<settings, uninstalls, lastUninstall, lastMenu>>
    /\ UNCHANGED <<leafVars, pinVars, openVars, rootVars, salVars, marked, overlay, keyEvent>>
    /\ lastCheckedDay' = FormatDay(now)
    /\ onLayoutReady' = IF settings.createAndOpenOnStartup THEN "waiting" ELSE "none"
    /\ UNCHANGED <<now, notes, awaiting, ensureByTick, createCalls, refreshCalls,
                   refreshLoop, ensureFailed, lastTick>>

\* Component.unload: onunload(), then every registered callback.
Unload ==
    /\ phase = "loaded"
    /\ phase' = "unloaded"
    /\ viewType' = DetachDailyNoteLeaves
    /\ activeLeaf' = ActiveAfterDetach
    /\ marked' = MarksAfter(DetachDailyNoteLeaves)
    /\ bodyClasses' = ToggleClass(ToggleClass(bodyClasses,
            "daily-notes-hide-frontmatter", FALSE), "daily-notes-hide-backlinks", FALSE)
    /\ slot' = UnloadSlots
    /\ intervals' = intervals \ RegisteredIntervals
    /\ wsListeners' = wsListeners \ RegisteredEvents
    /\ docListeners' = UninstallListeners("escShield", docListeners) \ RegisteredDomEvents
    /\ uninstalls' = [u \in Uninstallers |-> 1]
    /\ UNCHANGED <<settings, original, lastUninstall, lastMenu>>
    /\ UNCHANGED <<pinVars, openVars, rootVars, salVars, escVars, dayVars>>

\* The wrappers of other callers in a chain of layers.
RECURSIVE OtherLayers(_)
OtherLayers(layers) ==
    IF layers = <<>> THEN 0
    ELSE (IF Head(layers) = "other" THEN 1 ELSE 0) + OtherLayers(Tail(layers))

RECURSIVE TotalOtherLayers(_)
TotalOtherLayers(ms) ==
    IF ms = {} THEN 0
    ELSE LET m == CHOOSE x \in ms : TRUE
         IN OtherLayers(slot[m]) + TotalOtherLayers(ms \ {m})

MaxWraps == 1

\* Another caller wraps a method the plugin has patched: its wrapper becomes the
\* method and delegates to what the method was.
OtherWraps(m) ==
    /\ phase = "loaded"
    /\ TotalOtherLayers(Methods) < MaxWraps
    /\ slot' = [slot EXCEPT ![m] = <<"other">> \o @]
    /\ UNCHANGED <<phase, settings, original, docListeners, wsListeners, intervals,
                   bodyClasses, uninstalls, lastUninstall, lastMenu>>
    /\ UNCHANGED <<leafVars, pinVars, openVars, rootVars, salVars, marked, escVars, dayVars>>

\* An uninstaller is invoked once more after the plugin has been unloaded.
UninstallAgain(u) ==
    /\ phase = "unloaded"
    /\ uninstalls[u] < MaxUninstalls
    /\ uninstalls' = [uninstalls EXCEPT ![u] = @ + 1]
    /\ slot' = UninstallSlots(u, slot)
    /\ docListeners' = UninstallListeners(u, docListeners)
    /\ lastUninstall' = [kind |-> "uninstall", of |-> u,
                         changed |-> slot' # slot \/ docListeners' # docListeners]
    /\ UNCHANGED <<phase, settings, original, wsListeners, intervals, bodyClasses, lastMenu>>
    /\ UNCHANGED <<leafVars, pinVars, openVars, rootVars, salVars, marked, escVars, dayVars>>

\* The host triggers "file-menu" for a file or a folder; the plugin's listener,
\* while it is on the workspace, adds its item to a folder's menu.
FileMenu(isFolder) ==
    /\ lastMenu' = [kind |-> "file-menu", folder |-> isFolder,
                    itemAdded |-> "file-menu" \in wsListeners /\ isFolder,
                    phase |-> phase]
    /\ UNCHANGED <<phase, settings, slot, original, docListeners, wsListeners,
                   intervals, bodyClasses, uninstalls, lastUninstall>>
    /\ UNCHANGED <<leafVars, pinVars, openVars, rootVars, salVars, marked, escVars, dayVars>>

(* ------------------------------------------------------------------ *)
(* The host's own moves                                                *)
(* ------------------------------------------------------------------ *)

\* openDailyNoteEditor / openFolderView / openTagView: getLeaf(true), then
\* setViewState({type: DAILY_NOTE_VIEW_TYPE}), then revealLeaf.
OpenDailyNoteEditorLeaf(l) ==
    /\ phase = "loaded"
    /\ viewType[l] = "none"
    /\ viewType' = [viewType EXCEPT ![l] = DAILY_NOTE_VIEW_TYPE]
    /\ marked' = MarksAfter(viewType')
    /\ UNCHANGED <<lifeVars, activeLeaf, pinVars, openVars, rootVars, salVars, escVars, dayVars>>

\* The user opens, navigates or closes a leaf: its view type changes.
HostSetViewType(l, vt) ==
    /\ vt # viewType[l]
    /\ vt = DAILY_NOTE_VIEW_TYPE => phase = "loaded"
    /\ viewType' = [viewType EXCEPT ![l] = vt]
    /\ activeLeaf' = IF vt = "none" /\ activeLeaf = l THEN NoLeaf ELSE activeLeaf
    /\ marked' = MarksAfter(viewType')
    /\ UNCHANGED <<lifeVars, pinVars, openVars, rootVars, salVars, escVars, dayVars>>

(* ------------------------------------------------------------------ *)
(* initializeESCShield and tagDNEElements                              *)
(* ------------------------------------------------------------------ *)

\* The transient surfaces escHandler looks for, and the classes a surface may have.
ModalSelectors == {"modal-container", "prompt", "suggestion-container", "menu", "popover"}
OverlayClasses == ModalSelectors \cup {"tooltip"}

\* The selectors tagDNEElements sweeps the document for.
TagSelectors ==
    {"daily-note-editor", "daily-note-container", "dn-editor",
     "dn-leaf-view", "cm-editor", "cm-content"}

\* tagDNEElements(view): the view's contentEl, containerEl and leaf.containerEl
\* when a view is given, then every element matching a selector.
TagDNEElements(leafOfView) ==
    marked \cup
    (IF leafOfView \in Leaves
     THEN {<<leafOfView, "content">>, <<leafOfView, "view">>, <<leafOfView, "leaf">>}
     ELSE {}) \cup
    QuerySelectorAll(TagSelectors)

\* The "active-leaf-change" listener.
ActiveLeafChange(l) ==
    /\ l \in Leaves => viewType[l] # "none"
    /\ "active-leaf-change" \in wsListeners
    /\ marked' = IF ViewTypeOf(l) = DAILY_NOTE_VIEW_TYPE THEN TagDNEElements(l) ELSE marked
    /\ UNCHANGED <<lifeVars, leafVars, pinVars, openVars, rootVars, salVars, escVars, dayVars>>

\* The 2-second interval: tagDNEElements().
TagSweep ==
    /\ "tag" \in intervals
    /\ marked' = TagDNEElements(NoLeaf)
    /\ UNCHANGED <<lifeVars, leafVars, pinVars, openVars, rootVars, salVars, escVars, dayVars>>

\* The "focusin" listener.
Focusin(target) ==
    /\ Exists(target)
    /\ "focusin" \in docListeners
    /\ focusInsideDNE' = Closest(target, "dne-root")
    /\ UNCHANGED <<lifeVars, leafVars, pinVars, openVars, rootVars, salVars, marked, overlay, keyEvent, dayVars>>

\* document.querySelector(".modal-container,.prompt,.suggestion-container,.menu,.popover")
ModalOpen == QuerySelectorAll(ModalSelectors) # {}

\* An escHandler that trusts the tracked focus flag alone.
EscSuppresses_FocusFlagOnly(key, target) ==
    /\ key = "Escape"
    /\ ViewTypeOf(activeLeaf) = DAILY_NOTE_VIEW_TYPE
    /\ ~ModalOpen
    /\ ~(Closest(target, "cm-editor") /\ settings.useArrowUpOrDownToNavigate)
    /\ focusInsideDNE

\* An escHandler that does not look for an open modal.
EscSuppresses_NoModalCheck(key, target) ==
    /\ key = "Escape"
    /\ ViewTypeOf(activeLeaf) = DAILY_NOTE_VIEW_TYPE
    /\ ~(Closest(target, "cm-editor") /\ settings.useArrowUpOrDownToNavigate)
    /\ (focusInsideDNE \/ Closest(target, "dne-root"))

\* An escHandler that does not leave Escape in an editor surface to CodeMirror.
EscSuppresses_NoCodeMirrorCheck(key, target) ==
    /\ key = "Escape"
    /\ ViewTypeOf(activeLeaf) = DAILY_NOTE_VIEW_TYPE
    /\ ~ModalOpen
    /\ (focusInsideDNE \/ Closest(target, "dne-root"))

\* escHandler: does it reach the three calls that suppress the event?
EscSuppresses(key, target) ==
    /\ key = "Escape"
    /\ ViewTypeOf(activeLeaf) = DAILY_NOTE_VIEW_TYPE
    /\ ~ModalOpen
    /\ ~(Closest(target, "cm-editor") /\ settings.useArrowUpOrDownToNavigate)
    /\ (focusInsideDNE \/ Closest(target, "dne-root"))

Keys == {"Escape", "a"}

\* A keydown reaches the document; escHandler runs if it is still listening.
Keydown(key, target) ==
    /\ keyEvent = NoCall
    /\ Exists(target)
    /\ LET hit == "keydown" \in docListeners /\ EscSuppresses(key, target) IN
       keyEvent' = [kind |-> "keydown", key |-> key,
                   listening |-> "keydown" \in docListeners,
                   activeIsDailyNote |-> ViewTypeOf(activeLeaf) = DAILY_NOTE_VIEW_TYPE,
                   modalOpen |-> ModalOpen,
                   inCodeMirror |-> Closest(target, "cm-editor"),
                   inGuardedRegion |-> Closest(target, "dne-root"),
                   focusFlag |-> focusInsideDNE,
                   stopPropagation |-> hit,
                   stopImmediatePropagation |-> hit,
                   preventDefault |-> hit]
    /\ UNCHANGED <<lifeVars, leafVars, pinVars, openVars, rootVars, salVars, marked, overlay, focusInsideDNE, dayVars>>

\* The dispatch of the keydown ends; nothing else runs during it.
KeydownDispatched ==
    /\ keyEvent # NoCall
    /\ keyEvent' = NoCall
    /\ UNCHANGED <<lifeVars, leafVars, pinVars, openVars, rootVars, salVars, marked, overlay, focusInsideDNE, dayVars>>

\* The host shows or dismisses a transient surface (a modal, a menu, a tooltip).
HostSetOverlay(class) ==
    /\ class # overlay
    /\ overlay' = class
    /\ marked' = marked \ {Overlay}
    /\ UNCHANGED <<lifeVars, leafVars, pinVars, openVars, rootVars, salVars, focusInsideDNE, keyEvent, dayVars>>

\* The user makes a leaf the active one.
UserActivatesLeaf(l) ==
    /\ viewType[l] # "none"
    /\ activeLeaf # l
    /\ activeLeaf' = l
    /\ UNCHANGED <<lifeVars, viewType, pinVars, openVars, rootVars, salVars, marked, escVars, dayVars>>

(* ------------------------------------------------------------------ *)
(* Pinning: the specification and its claims                           *)
(* ------------------------------------------------------------------ *)

InitPin == InitState(PlainSettings, FALSE)

NextPin ==
    \/ Onload
    \/ Unload
    \/ \E l \in Leaves : OpenDailyNoteEditorLeaf(l)
    \/ \E l \in Leaves, vt \in ViewTypes : HostSetViewType(l, vt)
    \/ \E l \in Leaves, p \in BOOLEAN : SetPinned(l, p)

SpecPin == InitPin /\ [][NextPin]_vars

\* C1: every setPinned call on a leaf hosting the daily-note view, made while the
\* patch is installed, returns (the re-invocation of setPinned(true) goes no
\* deeper: the host's setPinned runs at most twice) and leaves the leaf pinned.
C1_GuardedLeafStaysPinned ==
    (lastPin.kind = "setPinned" /\ lastPin.guarded /\ lastPin.patched) =>
        /\ lastPin.returned
        /\ pinned[lastPin.leaf]
        /\ lastPin.hostCalls = (IF lastPin.arg THEN 1 ELSE 2)

C1_Witness ==
    /\ lastPin.kind = "setPinned" /\ lastPin.guarded /\ lastPin.patched
    /\ ~lastPin.arg /\ lastPin.returned /\ pinned[lastPin.leaf]
    /\ lastPin.hostCalls = 2

(* ------------------------------------------------------------------ *)
(* The active-leaf guard: the specification and its claims             *)
(* ------------------------------------------------------------------ *)

InitActive == InitState(PlainSettings, FALSE)

NextActive ==
    \/ Onload
    \/ Unload
    \/ \E l \in Leaves : OpenDailyNoteEditorLeaf(l)
    \/ \E l \in Leaves, vt \in ViewTypes : HostSetViewType(l, vt)
    \/ \E target \in Leaves \cup {NoLeaf}, params \in SetActiveLeafParams, stack \in Stacks :
            SetActiveLeaf(target, params, stack)

SpecActive == InitActive /\ [][NextActive]_vars

InitEsc == \E arrow \in BOOLEAN : InitState(SettingsOf(arrow, FALSE, FALSE, FALSE), FALSE)

\* No other handler runs while a keydown is being dispatched.
Idle == keyEvent = NoCall

NextEsc ==
    \/ Idle /\ Onload
    \/ Idle /\ Unload
    \/ Idle /\ \E l \in Leaves : OpenDailyNoteEditorLeaf(l)
    \/ Idle /\ \E l \in Leaves, vt \in ViewTypes : HostSetViewType(l, vt)
    \/ Idle /\ \E l \in Leaves : UserActivatesLeaf(l)
    \/ Idle /\ \E l \in Leaves \cup {NoLeaf} : ActiveLeafChange(l)
    \/ Idle /\ TagSweep
    \/ Idle /\ \E class \in OverlayClasses \cup {"none"} : HostSetOverlay(class)
    \/ Idle /\ \E target \in Elements : Focusin(target)
    \/ \E key \in Keys, target \in Elements : Keydown(key, target)
    \/ KeydownDispatched

SpecEsc == InitEsc /\ [][NextEsc]_vars

\* C4: an Escape keydown met by the listener while the active view is the
\* daily-note view, with its target inside the guarded region, no modal, prompt,
\* suggestion, menu or popover in the document and useArrowUpOrDownToNavigate
\* off, is suppressed by all three calls, whatever the tracked focus flag says.
C4_EscapeInsideGuardedRegionSuppressed ==
    (/\ keyEvent.kind = "keydown" /\ keyEvent.key = "Escape" /\ keyEvent.listening
     /\ keyEvent.activeIsDailyNote /\ keyEvent.inGuardedRegion
     /\ ~keyEvent.modalOpen /\ ~settings.useArrowUpOrDownToNavigate) =>
        /\ keyEvent.stopPropagation
        /\ keyEvent.stopImmediatePropagation
        /\ keyEvent.preventDefault

C4_Witness ==
    /\ keyEvent.kind = "keydown" /\ keyEvent.key = "Escape" /\ keyEvent.listening
    /\ keyEvent.activeIsDailyNote /\ keyEvent.inGuardedRegion
    /\ ~keyEvent.modalOpen /\ ~settings.useArrowUpOrDownToNavigate
    /\ ~keyEvent.focusFlag
    /\ keyEvent.stopPropagation /\ keyEvent.stopImmediatePropagation
    /\ keyEvent.preventDefault

\* C5: an Escape keydown is not suppressed, by any of the three calls, when a
\* modal, prompt, suggestion, menu or popover is in the document, nor when the
\* active leaf's view is not the daily-note view, whatever the focus flag says
\* and wherever the target lies.
C5_EscapeNotSuppressedUnderModalOrOtherView ==
    (/\ keyEvent.kind = "keydown" /\ keyEvent.key = "Escape"
     /\ (keyEvent.modalOpen \/ ~keyEvent.activeIsDailyNote)) =>
        /\ ~keyEvent.stopPropagation
        /\ ~keyEvent.stopImmediatePropagation
        /\ ~keyEvent.preventDefault

C5_Witness ==
    /\ keyEvent.kind = "keydown" /\ keyEvent.key = "Escape" /\ keyEvent.listening
    /\ keyEvent.modalOpen /\ keyEvent.activeIsDailyNote
    /\ keyEvent.inGuardedRegion /\ keyEvent.focusFlag
    /\ ~keyEvent.stopPropagation /\ ~keyEvent.stopImmediatePropagation
    /\ ~keyEvent.preventDefault

\* C16: every element carrying dne-root belongs to a leaf that hosts the
\* daily-note view (its content root, container root, leaf container or an
\* editor surface inside it); no element of another view is marked.
C16_OnlyDailyNoteElementsMarked ==
    \A el \in marked :
        /\ el \notin {Body, Overlay}
        /\ viewType[el[1]] = DAILY_NOTE_VIEW_TYPE

\* C17: an Escape keydown whose target is inside a .cm-editor while
\* useArrowUpOrDownToNavigate is on is suppressed by none of the three calls,
\* wherever the target lies and whatever the active view is.
C17_EscapeInEditorLeftToCodeMirror ==
    (/\ keyEvent.kind = "keydown" /\ keyEvent.key = "Escape"
     /\ keyEvent.inCodeMirror /\ settings.useArrowUpOrDownToNavigate) =>
        /\ ~keyEvent.stopPropagation
        /\ ~keyEvent.stopImmediatePropagation
        /\ ~keyEvent.preventDefault

C17_Witness ==
    /\ keyEvent.kind = "keydown" /\ keyEvent.key = "Escape" /\ keyEvent.listening
    /\ keyEvent.inCodeMirror /\ settings.useArrowUpOrDownToNavigate
    /\ keyEvent.activeIsDailyNote /\ keyEvent.inGuardedRegion /\ ~keyEvent.modalOpen
    /\ ~keyEvent.stopPropagation /\ ~keyEvent.stopImmediatePropagation
    /\ ~keyEvent.preventDefault

(* ------------------------------------------------------------------ *)
(* Install and uninstall: the specification and its claims             *)
(* ------------------------------------------------------------------ *)

InitLife ==
    \E frontmatter \in BOOLEAN, backlinks \in BOOLEAN :
        InitState(SettingsOf(FALSE, FALSE, frontmatter, backlinks), FALSE)

NextLife ==
    \/ Onload
    \/ Unload
    \/ \E u \in Uninstallers : UninstallAgain(u)
    \/ \E isFolder \in BOOLEAN : FileMenu(isFolder)
    \/ \E l \in Leaves : OpenDailyNoteEditorLeaf(l)
    \/ \E l \in Leaves, vt \in ViewTypes : HostSetViewType(l, vt)

SpecLife == InitLife /\ [][NextLife]_vars

\* C7: for every patch the plugin installs, one invocation of its uninstall
\* leaves the target holding exactly the method or listener set that was there
\* before install, and a further invocation changes nothing.
C7_UninstallRestoresExactly ==
    /\ phase = "unloaded" =>
            /\ \A m \in Methods : slot[m] = original[m]
            /\ "keydown" \notin docListeners
    /\ lastUninstall.kind = "uninstall" => ~lastUninstall.changed

\* C8: after unload nothing that onload installed is left: no focusin or keydown
\* listener on the document, no active-leaf-change or file-menu listener on the
\* workspace, neither interval, no layer of the plugin on any patched method.
C8_NothingLeftAfterUnload ==
    phase = "unloaded" =>
        /\ docListeners = {}
        /\ wsListeners = {}
        /\ intervals = {}
        /\ \A m \in Methods : \A i \in 1..Len(slot[m]) : slot[m][i] \notin {"dne", "guard"}

\* C12: with hideFrontmatter on, document.body carries
\* daily-notes-hide-frontmatter whenever a leaf hosts the daily-note view; after
\* unload it carries neither daily-notes-hide-frontmatter nor
\* daily-notes-hide-backlinks, whatever the settings are.
C12_CssFlagsSetOnLoadClearedOnUnload ==
    /\ (settings.hideFrontmatter /\ LeavesOfDailyNoteType # {}) =>
            "daily-notes-hide-frontmatter" \in bodyClasses
    /\ phase = "unloaded" =>
            /\ "daily-notes-hide-frontmatter" \notin bodyClasses
            /\ "daily-notes-hide-backlinks" \notin bodyClasses

C12_Witness ==
    /\ settings.hideFrontmatter
    /\ phase = "loaded"
    /\ LeavesOfDailyNoteType # {}
    /\ "daily-notes-hide-frontmatter" \in bodyClasses

(* ------------------------------------------------------------------ *)
(* Uninstall under later wrappers: the specification and its claims    *)
(* ------------------------------------------------------------------ *)

InitWrap == InitState(PlainSettings, FALSE)

NextWrap ==
    \/ Onload
    \/ \E m \in Methods : OtherWraps(m)
    \/ Unload
    \/ \E u \in Uninstallers : UninstallAgain(u)

SpecWrap == InitWrap /\ [][NextWrap]_vars

\* C13: when another caller has wrapped a method after the plugin patched it,
\* the plugin's uninstall takes off the plugin's own layer only: every wrapper
\* of another caller that was installed before the uninstall is installed after it.
C13_UninstallKeepsLaterWrappers ==
    [][phase' = "unloaded" =>
            \A m \in Methods : OtherLayers(slot'[m]) = OtherLayers(slot[m])]_vars

(* ------------------------------------------------------------------ *)
(* Root resolution: the specification and its claims                   *)
(* ------------------------------------------------------------------ *)

InitRoot == InitState(PlainSettings, FALSE)

NextRoot ==
    \/ Onload
    \/ Unload
    \/ \E i \in Items, r \in Items \cup {NoItem} : HostMovesItem(i, r)
    \/ \E x \in Leaves : GetRoot(x)

SpecRoot == InitRoot /\ [][NextRoot]_vars

\* C10 as claimed: in any nesting, getRoot applied to what a leaf's patched
\* getRoot returned gives that same object.
C10_RootResolutionIdempotent ==
    (lastRoot.kind = "getRoot" /\ lastRoot.patched /\ lastRoot.result # NoItem) =>
        lastRoot.again = lastRoot.result

\* C10 as amended: patched root resolution is idempotent for a leaf whose
\* original resolution reaches a true root with at most one further level:
\* what the original returns for the leaf is a leaf, or a container whose own
\* getRoot returns an item that is its own root.
C10_RootResolutionIdempotentWithinOneLevel ==
    (lastRoot.kind = "getRoot" /\ lastRoot.patched /\ lastRoot.withinOneLevel) =>
        lastRoot.again = lastRoot.result

C10_Witness ==
    /\ lastRoot.kind = "getRoot" /\ lastRoot.patched /\ lastRoot.withinOneLevel
    /\ lastRoot.result \in Containers
    /\ origRoot[lastRoot.leaf] # lastRoot.result
    /\ lastRoot.again = lastRoot.result

(* ------------------------------------------------------------------ *)
(* Opening files: the specification and its claims                     *)
(* ------------------------------------------------------------------ *)

InitOpen == \E rf \in BOOLEAN : InitState(PlainSettings, rf)

NextOpen ==
    \/ Onload
    \/ Unload
    \/ \E l \in Leaves : OpenDailyNoteEditorLeaf(l)
    \/ \E l \in Leaves, vt \in ViewTypes : HostSetViewType(l, vt)
    \/ \E l \in Leaves, file \in Files : OpenFile(l, file)
    \/ TimerFires
    \/ \E i \in 1..Len(opens) : HostRecords(i)
    \/ \E file \in Files : RecentFilesAsks(file)

SpecOpen == InitOpen /\ [][NextOpen]_vars

\* The temporary overrides that are in force, and those of them that have fired.
OverridesIn(kind, layers, mustHaveFired) ==
    {<<kind, layers[i].id>> : i \in {j \in 1..Len(layers) :
        layers[j].active /\ (mustHaveFired => layers[j].fired)}}

ActiveOverrides ==
    OverridesIn("record", recSlot, FALSE) \cup OverridesIn("should", shouldSlot, FALSE)

FiredOverrides ==
    OverridesIn("record", recSlot, TRUE) \cup OverridesIn("should", shouldSlot, TRUE)

PendingTimers == {timers[i] : i \in 1..Len(timers)}

\* C2: the file of an openFile call on a leaf hosting the daily-note view is not
\* added to the most-recently-opened record by that open, at whatever point of
\* the open the host issues recordMostRecentOpenedFile for it.
C2_GuardedOpenNeverRecorded ==
    \A i \in 1..Len(opens) : opens[i].guarded => opens[i].record # "recorded"

\* C9 as claimed: a temporary override removes itself after firing once; one
\* that has fired is no longer in force.
C9_OverrideGoneAfterFiringOnce == FiredOverrides = {}

\* C9 as amended: a temporary override is in force exactly as long as its timer
\* is pending, whether or not it has fired; once the pending timer callbacks
\* have run, no override is in force and a call for any file reaches the
\* original recordMostRecentOpenedFile and shouldAddFile.
C9_OverrideLivesUntilItsTimer ==
    /\ ActiveOverrides = PendingTimers
    /\ timers = <<>> =>
            \A file \in Files :
                /\ ReachesOriginal(recSlot, file)
                /\ ReachesOriginal(shouldSlot, file)

C9_Witness ==
    /\ timers = <<>>
    /\ Len(opens) >= 2
    /\ \A i \in 1..Len(opens) :
            opens[i].guarded /\ opens[i].record = "suppressed"
    /\ ActiveOverrides = {}

(* ------------------------------------------------------------------ *)
(* Calls on a leaf that changes its view: the specification and claims *)
(* ------------------------------------------------------------------ *)

\* The calls are followed on one leaf, whose view the host changes between them.
CalledLeaf == "L1"

InitCalls == InitState(PlainSettings, FALSE)

NextCalls ==
    \/ Onload
    \/ Unload
    \/ OpenDailyNoteEditorLeaf(CalledLeaf)
    \/ \E vt \in ViewTypes : HostSetViewType(CalledLeaf, vt)
    \/ \E p \in BOOLEAN : SetPinned(CalledLeaf, p)
    \/ \E file \in Files : OpenFile(CalledLeaf, file)
    \/ TimerFires

SpecCalls == InitCalls /\ [][NextCalls]_vars

\* C15: what a patched call does depends on the view the leaf hosts when the
\* call is made, not on an earlier call: an openFile installs the overrides
\* exactly when the leaf hosts the daily-note view at that call, and a setPinned
\* leaves the leaf pinned exactly when pinning was asked for or the leaf hosts
\* the daily-note view at that call.
C15_GuardFollowsViewAtEachCall ==
    /\ \A i \in 1..Len(opens) : opens[i].guarded = opens[i].daily
    /\ (lastPin.kind = "setPinned" /\ lastPin.returned) =>
            pinned[lastPin.leaf] = (lastPin.arg \/ (lastPin.guarded /\ lastPin.patched))

C15_Witness ==
    /\ phase = "loaded"
    /\ viewType[CalledLeaf] = "markdown"
    /\ Len(opens) >= 2
    /\ opens[1].guarded /\ ~opens[2].guarded
    /\ lastPin.kind = "setPinned" /\ ~lastPin.arg /\ ~lastPin.guarded
    /\ ~pinned[CalledLeaf]

\* C14: the file of an openFile call on a leaf that does not host the daily-note
\* view is recorded as most recently opened, also while a temporary override of
\* a guarded open is in place, whichever file that override excludes.
C14_UnguardedOpenAlwaysRecorded ==
    \A i \in 1..Len(opens) : ~opens[i].guarded => opens[i].record # "suppressed"

(* ------------------------------------------------------------------ *)
(* The day-boundary monitor                                            *)
(* ------------------------------------------------------------------ *)

\* Leaves are opened with the daily-note view and closed; a leaf hosting another
\* view plays no part in the monitor.
InitDay ==
    \E onStartup \in BOOLEAN : InitState(SettingsOf(FALSE, onStartup, FALSE, FALSE), FALSE)

NextDay ==
    \/ Onload
    \/ Unload
    \/ \E l \in Leaves : OpenDailyNoteEditorLeaf(l)
    \/ \E l \in Leaves : HostSetViewType(l, "none")
    \/ ClockAdvances
    \/ NoteAppears
    \/ \E outcome \in LookupOutcomes : CheckDayChange(outcome)
    \/ \E outcome \in LookupOutcomes : LayoutReady(outcome)
    \/ \E i \in 1..Len(awaiting), created \in BOOLEAN : CreateDailyNoteSettles(i, created)

SpecDay == InitDay /\ [][NextDay]_vars

C11_NextTickRetriesAfterFailure ==
    (lastTick # NoCall /\ lastTick.afterFailure) => lastTick.changed

\* C18: a failure of the note lookup or of createDailyNote in a day-change tick
\* is caught: once the tick's ensureTodaysDailyNoteExists has settled the refresh
\* loop has run, with refreshForNewDay invoked on every leaf hosting the
\* daily-note view, and the interval goes on ticking while the plugin is loaded.
C18_FailureCaughtRefreshStillRuns ==
    /\ phase = "loaded" => "day" \in intervals
    /\ \A day \in Days :
            (ensureFailed[day] # "no" /\ ~TickAwaiting(day)) =>
                /\ refreshLoop[day].runs = 1
                /\ \A l \in refreshLoop[day].views : refreshCalls[l][day] = 1

\* A failed creation on the first new day, then the next change of date found
\* and handled by a later tick.
C18_Witness ==
    LET failedDay == FormatDay(InstantsPerDay)
        laterDay == FormatDay(InstantsPerDay + InstantsPerDay)
    IN /\ ensureFailed[failedDay] = "create"
       /\ refreshLoop[failedDay].runs = 1 /\ refreshLoop[failedDay].views # {}
       /\ lastCheckedDay = laterDay
       /\ ensureByTick[laterDay] = 1
       /\ refreshLoop[laterDay].runs = 1 /\ refreshLoop[laterDay].views # {}

\* C19: createDailyNote is called at most once for a calendar date, however the
\* startup call and the ticks' calls of ensureTodaysDailyNoteExists interleave.
C19_CreateDailyNoteAtMostOncePerDate ==
    \A day \in Days : createCalls[day] <= 1

\* C20: while a tick's ensureTodaysDailyNoteExists is pending, refreshForNewDay
\* has been invoked on no view for that day change; the views refreshed are the
\* leaves hosting the daily-note view when the ensure settles, each once.
C20_RefreshAfterEnsureOnLeavesThen ==
    \A day \in Days :
        /\ TickAwaiting(day) =>
                /\ refreshLoop[day].runs = 0
                /\ \A l \in Leaves : refreshCalls[l][day] = 0
        /\ \A l \in Leaves :
                refreshCalls[l][day] >= 1 <=> l \in refreshLoop[day].views

\* A leaf opened while the ensure was pending has been refreshed.
C20_Witness ==
    \E day \in Days :
        /\ refreshLoop[day].runs = 1
        /\ refreshLoop[day].joined
        /\ createCalls[day] >= 1
        /\ \A l \in refreshLoop[day].views : refreshCalls[l][day] = 1

====
